---- MODULE Spec2Model ----
(***************************************************************************)
(* Conversation state and delivery tracking of the Mobile-Chat-API         *)
(* backend: the message store with its read receipts and per-user          *)
(* watermarks (app/services/message_service.py), the derived unread count  *)
(* and the conversation store (app/services/conversation_service.py), and  *)
(* the in-process connection registry (app/services/websocket_manager.py). *)
(*                                                                         *)
(* Tables are sets (or sequences, where a row id is its position) of rows. *)
(* A request handler is one action; `result` records what it returned or   *)
(* raised.                                                                 *)
(***************************************************************************)
EXTENDS Integers, Sequences, FiniteSets, Bags, TLC

\* Bounds of the model.
MaxMsgs == 2
MaxConvs == 2
MaxRequests == 2
MaxFrames == 1

Users == {"A", "B", "C"}
ConvIds == {1, 2}
MsgIds == 1 .. MaxMsgs
Emojis == {"like", "heart"}
Conns == {"w1", "w2", "w3"}
NoConn == "none"

ADMIN == "ADMIN"
MODERATOR == "MODERATOR"
MEMBER == "MEMBER"
SENT == "SENT"
READ == "READ"

Ok == "ok"
BadRequest == "BadRequest"
Forbidden == "Forbidden"
NotFound == "NotFound"
Conflict == "Conflict"

VARIABLES
    conversations,          \* table conversations: id |-> [is_group, created_by]
    participants,           \* table participants: rows [conversation_id, user_id, role]
    messages,               \* table messages: id (position) |-> row
    read_receipts,          \* table message_read_receipts: rows <<message_id, user_id>>
    conversation_settings,  \* table conversation_settings: rows [user_id, conversation_id, last_read_message_id]
    message_reactions,      \* table message_reactions: a bag of rows [message_id, user_id, emoji]
    active_connections,     \* WebSocketManager.active_connections: conversation_id |-> list of connections
    accepted,               \* the connections whose accept() has succeeded
    bc,                     \* the broadcast_message call in progress, or the last one made
    sent,                   \* how often that broadcast's payload was sent to each connection
    handlers,               \* websocket_endpoint: the handler of each connection
    pusher,                 \* what the last HTTP request published through pusher_client
    sessions,               \* the service calls in flight, each on its own db session
    result                  \* what the last request returned or raised

storeVars == <<conversations, participants, messages, read_receipts,
               conversation_settings, message_reactions>>
registryVars == <<active_connections, accepted, bc, sent>>
requestVars == <<handlers, pusher, sessions>>
vars == <<storeVars, registryVars, requestVars, result>>

ReturnedWith(op, status, value) == [op |-> op, status |-> status, value |-> value]
Returned(op, status) == ReturnedWith(op, status, 0)

----------------------------------------------------------------------------
\* Queries shared by the services.

\* select(Participant).where(conversation_id == c, user_id == u)
ParticipantRows(conversation_id, user_id) ==
    {p \in participants : p.conversation_id = conversation_id /\ p.user_id = user_id}

IsParticipant(conversation_id, user_id) ==
    ParticipantRows(conversation_id, user_id) # {}

RoleOf(conversation_id, user_id) ==
    IF IsParticipant(conversation_id, user_id)
        THEN (CHOOSE p \in ParticipantRows(conversation_id, user_id) : TRUE).role
        ELSE "NONE"

ExistingMsgIds == 1 .. Len(messages)

MaxOf(S) == CHOOSE x \in S : \A y \in S : y <= x

\* select(Message.sent_at).where(Message.id == id): 0 stands for None.
SentAtOf(message_id) ==
    IF message_id \in ExistingMsgIds THEN messages[message_id].sent_at ELSE 0

\* ConversationSettings.last_read_message_id of (user, conversation) in the
\* settings table given; 0 when there is no row.
LastReadMessageId(settings, conversation_id, user_id) ==
    LET rows == {s \in settings :
                    s.conversation_id = conversation_id /\ s.user_id = user_id}
    IN  IF rows = {} THEN 0 ELSE (CHOOSE s \in rows : TRUE).last_read_message_id

\* The most recent sent_at among the user's own non-deleted messages of the
\* conversation; 0 stands for None.
LastSentTimeByUser(conversation_id, user_id) ==
    LET own == {m \in ExistingMsgIds :
                   /\ messages[m].conversation_id = conversation_id
                   /\ messages[m].sender_id = user_id
                   /\ ~messages[m].is_deleted}
    IN  IF own = {} THEN 0 ELSE MaxOf({messages[m].sent_at : m \in own})

\* A plausible slip: the count looks at the stored watermark alone, with neither
\* the user's own last send nor the sender filter.
unread_count_settings_only(settings, conversation_id, user_id) ==
    LET calc == SentAtOf(LastReadMessageId(settings, conversation_id, user_id))
    IN  IF calc # 0
            THEN Cardinality({m \in ExistingMsgIds :
                    /\ messages[m].conversation_id = conversation_id
                    /\ messages[m].sent_at > calc
                    /\ ~messages[m].is_deleted})
            ELSE Cardinality({m \in ExistingMsgIds :
                    /\ messages[m].conversation_id = conversation_id
                    /\ ~messages[m].is_deleted})

\* A plausible slip: the watermark comparison is >= instead of >.
unread_count_inclusive(settings, conversation_id, user_id) ==
    LET last_sent == LastSentTimeByUser(conversation_id, user_id)
        last_read_id == LastReadMessageId(settings, conversation_id, user_id)
        from_settings == SentAtOf(last_read_id)
        calc == IF last_read_id # 0
                    THEN IF from_settings # 0 /\ last_sent # 0
                             THEN MaxOf({from_settings, last_sent})
                             ELSE IF from_settings # 0 THEN from_settings
                                  ELSE last_sent
                    ELSE last_sent
    IN  IF calc # 0
            THEN Cardinality({m \in ExistingMsgIds :
                    /\ messages[m].conversation_id = conversation_id
                    /\ messages[m].sent_at >= calc
                    /\ ~messages[m].is_deleted
                    /\ messages[m].sender_id # user_id})
            ELSE Cardinality({m \in ExistingMsgIds :
                    /\ messages[m].conversation_id = conversation_id
                    /\ ~messages[m].is_deleted
                    /\ messages[m].sender_id # user_id})

\* ConversationService._get_unread_count, reading the settings table given.
unread_count(settings, conversation_id, user_id) ==
    LET last_sent == LastSentTimeByUser(conversation_id, user_id)
        last_read_id == LastReadMessageId(settings, conversation_id, user_id)
        from_settings == SentAtOf(last_read_id)
        calc == IF last_read_id # 0
                    THEN IF from_settings # 0 /\ last_sent # 0
                             THEN MaxOf({from_settings, last_sent})
                             ELSE IF from_settings # 0 THEN from_settings
                                  ELSE last_sent
                    ELSE last_sent
    IN  IF calc # 0
            THEN Cardinality({m \in ExistingMsgIds :
                    /\ messages[m].conversation_id = conversation_id
                    /\ messages[m].sent_at > calc
                    /\ ~messages[m].is_deleted
                    /\ messages[m].sender_id # user_id})
            ELSE Cardinality({m \in ExistingMsgIds :
                    /\ messages[m].conversation_id = conversation_id
                    /\ ~messages[m].is_deleted
                    /\ messages[m].sender_id # user_id})

\* ConversationService._get_unread_count on the database as it is.
get_unread_count(conversation_id, user_id) ==
    unread_count(conversation_settings, conversation_id, user_id)

----------------------------------------------------------------------------
\* Message store.

\* sent_at is stamped from the clock when the row is written: it is never
\* earlier than the newest row's stamp, and two rows may carry the same one.
NextSentAt ==
    IF Len(messages) = 0 THEN {1}
    ELSE {messages[Len(messages)].sent_at, messages[Len(messages)].sent_at + 1}

\* MessageService.create_message
create_message(conversation_id, sender_id) ==
    /\ Len(messages) < MaxMsgs
    /\ IF ~IsParticipant(conversation_id, sender_id)
           THEN /\ result' = Returned("create_message", Forbidden)
                /\ UNCHANGED messages
           ELSE IF conversation_id \notin DOMAIN conversations
           THEN /\ result' = Returned("create_message", NotFound)
                /\ UNCHANGED messages
           ELSE \E t \in NextSentAt :
                /\ messages' = Append(messages,
                       [conversation_id |-> conversation_id,
                        sender_id |-> sender_id,
                        sent_at |-> t,
                        is_deleted |-> FALSE,
                        status |-> SENT])
                /\ result' = Returned("create_message", Ok)
    /\ UNCHANGED <<conversations, participants, read_receipts, conversation_settings,
                   message_reactions, registryVars>>

\* A plausible slip: the check of who may delete is lost.
delete_message_ungated(message_id, user_id) ==
    /\ IF message_id \notin ExistingMsgIds
           THEN /\ result' = Returned("delete_message", NotFound)
                /\ UNCHANGED messages
           ELSE /\ messages' = [messages EXCEPT ![message_id].is_deleted = TRUE]
                /\ result' = Returned("delete_message", Ok)
    /\ UNCHANGED <<conversations, participants, read_receipts, conversation_settings,
                   message_reactions, registryVars>>

\* MessageService.delete_message
delete_message(message_id, user_id) ==
    /\ IF message_id \notin ExistingMsgIds
           THEN /\ result' = Returned("delete_message", NotFound)
                /\ UNCHANGED messages
           ELSE LET message == messages[message_id]
                    is_sender == message.sender_id = user_id
                    is_admin_mod == RoleOf(message.conversation_id, user_id)
                                        \in {ADMIN, MODERATOR}
                IN  IF ~is_sender /\ ~is_admin_mod
                        THEN /\ result' = Returned("delete_message", Forbidden)
                             /\ UNCHANGED messages
                        ELSE /\ messages' = [messages EXCEPT ![message_id].is_deleted = TRUE]
                             /\ result' = Returned("delete_message", Ok)
    /\ UNCHANGED <<conversations, participants, read_receipts, conversation_settings,
                   message_reactions, registryVars>>

\* MessageService.get_messages_in_conversation, all pages, for a participant:
\* the ids of the rows of the conversation that are not deleted.
get_messages_in_conversation(conversation_id) ==
    {m \in ExistingMsgIds :
        /\ messages[m].conversation_id = conversation_id
        /\ ~messages[m].is_deleted}

\* select(Message).where(Message.id.in_(message_ids))
\*     .order_by(desc(Message.sent_at)).limit(1):
\* the rows the query may return (any of the newest, when stamps tie).
LatestMessageIds(message_ids) ==
    LET found == message_ids \cap ExistingMsgIds
    IN  {m \in found : \A n \in found : messages[n].sent_at <= messages[m].sent_at}

\* A plausible slip: the lookup of the receipts the user already has is lost, so
\* an id marked before is inserted again and the commit fails on the primary key.
mark_status_no_lookup(receipts, conversation_id, user_id, message_ids) ==
    IF message_ids = {} THEN Ok
    ELSE IF ~IsParticipant(conversation_id, user_id) THEN Forbidden
    ELSE IF \E m \in message_ids \cap ExistingMsgIds :
                /\ messages[m].conversation_id = conversation_id
                /\ <<m, user_id>> \in receipts
        THEN "IntegrityError"
    ELSE Ok

\* mark_messages_as_read: what the call returns or raises.
mark_status(receipts, conversation_id, user_id, message_ids) ==
    IF message_ids = {} THEN Ok
    ELSE IF ~IsParticipant(conversation_id, user_id) THEN Forbidden
    ELSE Ok

\* mark_messages_as_read: the receipts table the call leaves. An id gets a
\* receipt when the user has none for it yet and it is a message of this
\* conversation.
mark_receipts(receipts, conversation_id, user_id, message_ids) ==
    IF mark_status(receipts, conversation_id, user_id, message_ids) # Ok
        THEN receipts
        ELSE receipts \cup
             {<<m, user_id>> : m \in {n \in message_ids \cap ExistingMsgIds :
                 /\ <<n, user_id>> \notin receipts
                 /\ messages[n].conversation_id = conversation_id}}

\* The settings table after the row of (user, conversation) is updated, or
\* created, with last_read_message_id = latest.
SettingsWith(settings, conversation_id, user_id, latest) ==
    {s \in settings :
        ~(s.conversation_id = conversation_id /\ s.user_id = user_id)}
    \cup {[user_id |-> user_id, conversation_id |-> conversation_id,
           last_read_message_id |-> latest]}

\* mark_messages_as_read: the settings tables the call may leave (one for each
\* row the latest-message query may return).
mark_settings(settings, conversation_id, user_id, message_ids) ==
    IF \/ message_ids = {}
       \/ ~IsParticipant(conversation_id, user_id)
       \/ LatestMessageIds(message_ids) = {}
        THEN {settings}
        ELSE {SettingsWith(settings, conversation_id, user_id, latest) :
                 latest \in LatestMessageIds(message_ids)}

\* read_by_count of a MessageResponse, as get_message and
\* get_messages_in_conversation compute it:
\* select(func.count(MessageReadReceipt.user_id))
\*     .where(MessageReadReceipt.message_id == message.id)
read_by_count(m) == Cardinality({r \in read_receipts : r[1] = m})

\* MessageService.mark_messages_as_read
mark_messages_as_read(conversation_id, user_id, message_ids) ==
    /\ result' = Returned("mark_messages_as_read",
                     mark_status(read_receipts, conversation_id, user_id, message_ids))
    /\ read_receipts' =
           mark_receipts(read_receipts, conversation_id, user_id, message_ids)
    /\ conversation_settings' \in
           mark_settings(conversation_settings, conversation_id, user_id, message_ids)
    /\ UNCHANGED <<conversations, participants, messages, message_reactions, registryVars>>

----------------------------------------------------------------------------
\* Reactions.

ReactionRow(message_id, user_id, emoji) ==
    [message_id |-> message_id, user_id |-> user_id, emoji |-> emoji]

\* A plausible slip: the row is inserted without looking for an existing one.
add_message_reaction_unchecked(message_id, user_id, emoji) ==
    /\ IF message_id \notin ExistingMsgIds \/ SentAtOf(message_id) = 0
           THEN /\ result' = Returned("add_message_reaction", NotFound)
                /\ UNCHANGED message_reactions
           ELSE IF messages[message_id].is_deleted
           THEN /\ result' = Returned("add_message_reaction", NotFound)
                /\ UNCHANGED message_reactions
           ELSE IF ~IsParticipant(messages[message_id].conversation_id, user_id)
           THEN /\ result' = Returned("add_message_reaction", Forbidden)
                /\ UNCHANGED message_reactions
           ELSE /\ message_reactions' = message_reactions (+)
                       SetToBag({ReactionRow(message_id, user_id, emoji)})
                /\ result' = Returned("add_message_reaction", Ok)
    /\ UNCHANGED <<conversations, participants, messages, read_receipts,
                   conversation_settings, registryVars>>

\* MessageService.add_message_reaction
add_message_reaction(message_id, user_id, emoji) ==
    /\ IF message_id \notin ExistingMsgIds
           THEN /\ result' = Returned("add_message_reaction", NotFound)
                /\ UNCHANGED message_reactions
           ELSE IF messages[message_id].is_deleted
           THEN /\ result' = Returned("add_message_reaction", NotFound)
                /\ UNCHANGED message_reactions
           ELSE IF ~IsParticipant(messages[message_id].conversation_id, user_id)
           THEN /\ result' = Returned("add_message_reaction", Forbidden)
                /\ UNCHANGED message_reactions
           ELSE IF CopiesIn(ReactionRow(message_id, user_id, emoji), message_reactions) > 0
           THEN /\ result' = Returned("add_message_reaction", Conflict)
                /\ UNCHANGED message_reactions
           ELSE /\ message_reactions' = message_reactions (+)
                       SetToBag({ReactionRow(message_id, user_id, emoji)})
                /\ result' = Returned("add_message_reaction", Ok)
    /\ UNCHANGED <<conversations, participants, messages, read_receipts,
                   conversation_settings, registryVars>>

\* MessageService.remove_message_reaction
remove_message_reaction(message_id, user_id, emoji) ==
    /\ IF CopiesIn(ReactionRow(message_id, user_id, emoji), message_reactions) = 0
           THEN /\ result' = Returned("remove_message_reaction", NotFound)
                /\ UNCHANGED message_reactions
           ELSE /\ message_reactions' = message_reactions (-)
                       SetToBag({ReactionRow(message_id, user_id, emoji)})
                /\ result' = Returned("remove_message_reaction", Ok)
    /\ UNCHANGED <<conversations, participants, messages, read_receipts,
                   conversation_settings, registryVars>>

----------------------------------------------------------------------------
\* Conversation store.

ParticipantIdsOf(conversation_id) ==
    {p.user_id : p \in {q \in participants : q.conversation_id = conversation_id}}

\* A plausible slip: the candidates of the query are returned without comparing
\* their participant set with the pair.
find_direct_conversation_no_set_check(user1_id, user2_id) ==
    {c \in DOMAIN conversations :
        /\ ~conversations[c].is_group
        /\ Cardinality({p \in participants :
               /\ p.conversation_id = c
               /\ p.user_id \in {user1_id, user2_id}}) = 2}

\* ConversationService._find_direct_conversation: the conversations the call
\* may return (the first of the query's rows, which come in no stated order,
\* whose participant set is the pair); none when the set is empty.
find_direct_conversation(user1_id, user2_id) ==
    {c \in DOMAIN conversations :
        /\ ~conversations[c].is_group
        /\ Cardinality({p \in participants :
               /\ p.conversation_id = c
               /\ p.user_id \in {user1_id, user2_id}}) = 2
        /\ ParticipantIdsOf(c) = {user1_id, user2_id}}

\* The id given to a new conversation row.
NewConversationId == Cardinality(DOMAIN conversations) + 1

\* A plausible slip: every participant of a new conversation is made a MEMBER.
created_participants_all_members(conversation_id, participant_ids, creator_id) ==
    {[conversation_id |-> conversation_id, user_id |-> u, role |-> MEMBER] :
        u \in participant_ids}

\* The participant rows create_conversation writes for a new conversation.
created_participants(conversation_id, participant_ids, creator_id) ==
    {[conversation_id |-> conversation_id, user_id |-> u,
      role |-> IF u = creator_id THEN ADMIN ELSE MEMBER] : u \in participant_ids}

\* ConversationService.create_conversation
create_conversation(participant_ids, creator_id, is_group) ==
    LET ids == participant_ids \cup {creator_id}
    IN  /\ IF ~(ids \subseteq Users)
               THEN /\ result' = Returned("create_conversation", BadRequest)
                    /\ UNCHANGED <<conversations, participants>>
               ELSE IF /\ ~is_group
                       /\ Cardinality(ids) = 2
                       /\ \E u1 \in ids, u2 \in ids :
                              u1 # u2 /\ find_direct_conversation(u1, u2) # {}
               THEN \E u1 \in ids, u2 \in ids :
                        /\ u1 # u2
                        /\ \E existing \in find_direct_conversation(u1, u2) :
                               result' = ReturnedWith("create_conversation", Ok, existing)
                        /\ UNCHANGED <<conversations, participants>>
               ELSE /\ Cardinality(DOMAIN conversations) < MaxConvs
                    /\ conversations' = conversations @@
                           (NewConversationId :>
                               [is_group |-> is_group, created_by |-> creator_id])
                    /\ participants' = participants \cup
                           created_participants(NewConversationId, ids, creator_id)
                    /\ result' = ReturnedWith("create_conversation", Ok, NewConversationId)
        /\ UNCHANGED <<messages, read_receipts, conversation_settings,
                       message_reactions, registryVars>>

\* ConversationService._check_participant_permission
check_participant_permission(conversation_id, user_id, required_roles) ==
    /\ IsParticipant(conversation_id, user_id)
    /\ RoleOf(conversation_id, user_id) \in required_roles

\* ConversationService.add_participants
add_participants(conversation_id, user_ids, user_id) ==
    /\ IF ~check_participant_permission(conversation_id, user_id, {ADMIN, MODERATOR})
           THEN /\ result' = Returned("add_participants", Forbidden)
                /\ UNCHANGED participants
           ELSE IF conversation_id \notin DOMAIN conversations
           THEN /\ result' = Returned("add_participants", NotFound)
                /\ UNCHANGED participants
           ELSE IF ~conversations[conversation_id].is_group
           THEN /\ result' = Returned("add_participants", BadRequest)
                /\ UNCHANGED participants
           ELSE IF ~(user_ids \subseteq Users)
           THEN /\ result' = Returned("add_participants", BadRequest)
                /\ UNCHANGED participants
           ELSE /\ participants' = participants \cup
                       {[conversation_id |-> conversation_id, user_id |-> u,
                         role |-> MEMBER] :
                           u \in user_ids \ ParticipantIdsOf(conversation_id)}
                /\ result' = Returned("add_participants", Ok)
    /\ UNCHANGED <<conversations, messages, read_receipts, conversation_settings,
                   message_reactions, registryVars>>

\* A plausible slip: the check that protects an ADMIN from a non-ADMIN is lost.
remove_participant_no_admin_guard(conversation_id, participant_user_id, user_id) ==
    /\ IF ~check_participant_permission(conversation_id, user_id, {ADMIN, MODERATOR})
           THEN /\ result' = Returned("remove_participant", Forbidden)
                /\ UNCHANGED participants
           ELSE IF ~IsParticipant(conversation_id, participant_user_id)
           THEN /\ result' = Returned("remove_participant", NotFound)
                /\ UNCHANGED participants
           ELSE /\ participants' = participants \
                       ParticipantRows(conversation_id, participant_user_id)
                /\ result' = Returned("remove_participant", Ok)
    /\ UNCHANGED <<conversations, messages, read_receipts, conversation_settings,
                   message_reactions, registryVars>>

\* ConversationService.remove_participant
remove_participant(conversation_id, participant_user_id, user_id) ==
    /\ IF ~check_participant_permission(conversation_id, user_id, {ADMIN, MODERATOR})
           THEN /\ result' = Returned("remove_participant", Forbidden)
                /\ UNCHANGED participants
           ELSE IF ~IsParticipant(conversation_id, participant_user_id)
           THEN /\ result' = Returned("remove_participant", NotFound)
                /\ UNCHANGED participants
           ELSE IF /\ RoleOf(conversation_id, participant_user_id) = ADMIN
                   /\ RoleOf(conversation_id, user_id) # ADMIN
           THEN /\ result' = Returned("remove_participant", Forbidden)
                /\ UNCHANGED participants
           ELSE /\ participants' = participants \
                       ParticipantRows(conversation_id, participant_user_id)
                /\ result' = Returned("remove_participant", Ok)
    /\ UNCHANGED <<conversations, messages, read_receipts, conversation_settings,
                   message_reactions, registryVars>>

\* ConversationService.update_participant_role
update_participant_role(conversation_id, participant_user_id, role, user_id) ==
    /\ IF ~check_participant_permission(conversation_id, user_id, {ADMIN})
           THEN /\ result' = Returned("update_participant_role", Forbidden)
                /\ UNCHANGED participants
           ELSE IF ~IsParticipant(conversation_id, participant_user_id)
           THEN /\ result' = Returned("update_participant_role", NotFound)
                /\ UNCHANGED participants
           ELSE /\ participants' =
                       (participants \
                           ParticipantRows(conversation_id, participant_user_id))
                       \cup {[conversation_id |-> conversation_id,
                              user_id |-> participant_user_id, role |-> role]}
                /\ result' = Returned("update_participant_role", Ok)
    /\ UNCHANGED <<conversations, messages, read_receipts, conversation_settings,
                   message_reactions, registryVars>>

\* ConversationService.leave_conversation
leave_conversation(conversation_id, user_id) ==
    /\ IF ~IsParticipant(conversation_id, user_id)
           THEN /\ result' = Returned("leave_conversation", NotFound)
                /\ UNCHANGED participants
           ELSE /\ participants' = participants \
                       ParticipantRows(conversation_id, user_id)
                /\ result' = Returned("leave_conversation", Ok)
    /\ UNCHANGED <<conversations, messages, read_receipts, conversation_settings,
                   message_reactions, registryVars>>

----------------------------------------------------------------------------
\* Connection registry (WebSocketManager).  A handler runs until its next await;
\* connect and disconnect have none after accept(), broadcast_message awaits
\* each send, and other handlers may run while it waits.

\* The list registered under a key; empty when the key is absent.
Bucket(conversation_id) ==
    IF conversation_id \in DOMAIN active_connections
        THEN active_connections[conversation_id]
        ELSE <<>>

Range(list) == {list[i] : i \in 1 .. Len(list)}

\* list.remove(x): the list without the first occurrence of x.
RECURSIVE Remove(_, _)
Remove(list, x) ==
    IF list = <<>> THEN <<>>
    ELSE IF Head(list) = x THEN Tail(list)
    ELSE <<Head(list)>> \o Remove(Tail(list), x)

\* del self.active_connections[conversation_id]
WithoutKey(registry, conversation_id) ==
    [k \in DOMAIN registry \ {conversation_id} |-> registry[k]]

\* self.active_connections[conversation_id] = list
WithBucket(registry, conversation_id, list) ==
    [k \in DOMAIN registry \cup {conversation_id} |->
        IF k = conversation_id THEN list ELSE registry[k]]

\* The registry after list.remove(websocket) on the key's list and the
\* deletion of the key once its list is empty.
RemovedFrom(registry, conversation_id, websocket) ==
    LET rest == Remove(registry[conversation_id], websocket)
    IN  IF rest = <<>> THEN WithoutKey(registry, conversation_id)
        ELSE WithBucket(registry, conversation_id, rest)

\* The waiting broadcast after the list it iterates was taken out of the
\* registry: the iterator keeps the old, empty list.
Detached(b, conversation_id) ==
    [b EXCEPT !.detached = b.detached \/ (b.pc = "sending" /\ b.conv = conversation_id)]

\* WebSocketManager.connect. accept() raises for a connection that was accepted
\* before or whose client is gone.
connect(websocket, conversation_id) ==
    /\ \/ /\ websocket \notin accepted
          /\ accepted' = accepted \cup {websocket}
          /\ active_connections' = WithBucket(active_connections, conversation_id,
                                       Append(Bucket(conversation_id), websocket))
          /\ bc' = [bc EXCEPT !.interleaved = bc.interleaved \/ (bc.pc = "sending")]
          /\ result' = Returned("connect", Ok)
       \/ /\ UNCHANGED <<accepted, active_connections, bc>>
          /\ result' = Returned("connect", "RuntimeError")
    /\ UNCHANGED <<storeVars, sent>>

\* A plausible slip: the key of an emptied list is left in the registry.
disconnect_keep_bucket(websocket, conversation_id) ==
    /\ IF /\ conversation_id \in DOMAIN active_connections
          /\ websocket \in Range(active_connections[conversation_id])
           THEN /\ active_connections' =
                       WithBucket(active_connections, conversation_id,
                           Remove(active_connections[conversation_id], websocket))
                /\ bc' = [bc EXCEPT !.interleaved = bc.interleaved \/ (bc.pc = "sending")]
           ELSE UNCHANGED <<active_connections, bc>>
    /\ result' = Returned("disconnect", Ok)
    /\ UNCHANGED <<storeVars, accepted, sent>>

\* WebSocketManager.disconnect. A connection that is not in the list raises
\* ValueError, which is caught.
disconnect(websocket, conversation_id) ==
    /\ IF /\ conversation_id \in DOMAIN active_connections
          /\ websocket \in Range(active_connections[conversation_id])
           THEN /\ active_connections' =
                       RemovedFrom(active_connections, conversation_id, websocket)
                /\ bc' = LET b == [bc EXCEPT !.interleaved =
                                       bc.interleaved \/ (bc.pc = "sending")]
                         IN  IF conversation_id \in DOMAIN active_connections'
                                 THEN b ELSE Detached(b, conversation_id)
           ELSE UNCHANGED <<active_connections, bc>>
    /\ result' = Returned("disconnect", Ok)
    /\ UNCHANGED <<storeVars, accepted, sent>>

\* A plausible slip: the sender is not skipped.
is_excluded_never(connection, exclude_websocket) == FALSE

\* broadcast_message: `if connection == exclude_websocket: continue`
is_excluded(connection, exclude_websocket) == connection = exclude_websocket

\* The list the loop of the broadcast iterates: the registered list, or the
\* old empty one after the key was deleted under the loop.
IteratedList(b) ==
    IF b.detached \/ b.conv \notin DOMAIN active_connections
        THEN <<>> ELSE active_connections[b.conv]

\* The position of the next connection the loop sends to after position i;
\* 0 when the loop ends.
NextSendIndex(list, i, exclude_websocket) ==
    LET later == {j \in (i + 1) .. Len(list) :
                     ~is_excluded(list[j], exclude_websocket)}
    IN  IF later = {} THEN 0 ELSE CHOOSE j \in later : \A k \in later : j <= k

RECURSIVE RemoveAll(_, _)
\* for ws in disconnected_websockets: if ws in list: list.remove(ws)
RemoveAll(list, disconnected_websockets) ==
    IF disconnected_websockets = <<>> THEN list
    ELSE RemoveAll(IF Head(disconnected_websockets) \in Range(list)
                       THEN Remove(list, Head(disconnected_websockets))
                       ELSE list,
                   Tail(disconnected_websockets))

\* The call after its return: its locals are gone, what it was asked and how
\* it went stays on record.
Finished(b, status) ==
    [b EXCEPT !.pc = "idle", !.i = 0, !.target = NoConn, !.disconnected = <<>>,
              !.detached = FALSE, !.status = status]

\* broadcast_message from the end of a send, or from its start, to its next
\* awaited send or, past the loop, through the clean-up to its return.
\* b is the call with position i reached and disconnected_websockets
\* collected.
Continue(b) ==
    LET next == NextSendIndex(IteratedList(b), b.i, b.exclude)
    IN  IF next # 0
            THEN /\ bc' = [b EXCEPT !.pc = "sending", !.i = next,
                                     !.target = IteratedList(b)[next]]
                 /\ UNCHANGED <<active_connections, result>>
            ELSE IF b.conv \notin DOMAIN active_connections
            THEN /\ bc' = Finished(b, "KeyError")
                 /\ result' = Returned("broadcast_message", "KeyError")
                 /\ UNCHANGED active_connections
            ELSE LET rest == RemoveAll(active_connections[b.conv], b.disconnected)
                 IN  /\ active_connections' =
                            IF rest = <<>> THEN WithoutKey(active_connections, b.conv)
                            ELSE WithBucket(active_connections, b.conv, rest)
                     /\ bc' = Finished(b, Ok)
                     /\ result' = Returned("broadcast_message", Ok)

\* No broadcast has been made.
NoBroadcast ==
    [pc |-> "idle", conv |-> 0, exclude |-> NoConn, i |-> 0, target |-> NoConn,
     disconnected |-> <<>>,
     detached |-> FALSE, start |-> <<>>, interleaved |-> FALSE, failed |-> FALSE,
     failed_sends |-> {}, status |-> Ok]

\* WebSocketManager.broadcast_message, from the call to its first awaited send
\* (or to its return when there is none).
broadcast_message(conversation_id, exclude_websocket) ==
    /\ bc.pc = "idle"
    /\ sent' = [w \in Conns |-> 0]
    /\ IF conversation_id \notin DOMAIN active_connections
           THEN /\ bc' = [NoBroadcast EXCEPT !.conv = conversation_id,
                                             !.exclude = exclude_websocket]
                /\ result' = Returned("broadcast_message", Ok)
                /\ UNCHANGED active_connections
           ELSE Continue([NoBroadcast EXCEPT
                              !.conv = conversation_id,
                              !.exclude = exclude_websocket,
                              !.start = active_connections[conversation_id]])
    /\ UNCHANGED <<storeVars, accepted>>

\* broadcast_message: the awaited send_text returns or raises, and the call
\* runs on to its next awaited send or to its return.
send_completes(outcome) ==
    /\ bc.pc = "sending"
    /\ sent' = IF outcome = Ok THEN [sent EXCEPT ![bc.target] = @ + 1] ELSE sent
    /\ Continue([bc EXCEPT
           !.disconnected = IF outcome = "WebSocketDisconnect"
                                THEN Append(@, bc.target) ELSE @,
           !.failed = @ \/ outcome # Ok,
           !.failed_sends = IF outcome # Ok THEN @ \cup {bc.target} ELSE @])
    /\ UNCHANGED <<storeVars, accepted>>

----------------------------------------------------------------------------
\* The connection handler (websocket_endpoint).  Each action runs the handler
\* from one awaited call to the next one at which the model lets other
\* handlers run.

WS_1008_POLICY_VIOLATION == 1008

\* The handler h after `return` or an exception: its `finally` has run.
Closed(h, close_code) ==
    [h EXCEPT !.pc = "closed", !.conv = 0, !.user = "", !.close_code = close_code,
              !.client_gone = FALSE]

\* The handler after the checks of its token and of its participant row.
Checked(conversation_id, user_id, token_ok, participant_found) ==
    [pc |-> "open", conv |-> conversation_id, user |-> user_id, close_code |-> 0,
     token_ok |-> token_ok, participant_found |-> participant_found,
     client_gone |-> FALSE]

\* A plausible slip: the participant check is lost.
websocket_endpoint_no_participant_check(websocket, conversation_id, user_id, token_sub) ==
    LET h == Checked(conversation_id, user_id, token_sub = user_id,
                     token_sub = user_id /\ IsParticipant(conversation_id, user_id))
    IN  /\ handlers[websocket].pc = "new"
        /\ IF token_sub # user_id
               THEN /\ handlers' = [handlers EXCEPT
                           ![websocket] = Closed(h, WS_1008_POLICY_VIOLATION)]
                    /\ disconnect(websocket, conversation_id)
               ELSE \/ /\ connect(websocket, conversation_id)
                       /\ result'.status = Ok
                       /\ handlers' = [handlers EXCEPT ![websocket] = h]
                    \/ /\ handlers' = [handlers EXCEPT ![websocket] = Closed(h, 0)]
                       /\ disconnect(websocket, conversation_id)

\* websocket_endpoint, from the call to its receive loop or to its return.
\* token_sub is the user the token names ("invalid" when verify_token raises or
\* the payload has no sub); the participant row is looked up only after the
\* token was found good.  accept() raises when the client is gone.
websocket_endpoint(websocket, conversation_id, user_id, token_sub) ==
    LET h == Checked(conversation_id, user_id, token_sub = user_id,
                     token_sub = user_id /\ IsParticipant(conversation_id, user_id))
    IN  /\ handlers[websocket].pc = "new"
        /\ IF token_sub # user_id \/ ~IsParticipant(conversation_id, user_id)
               THEN /\ handlers' = [handlers EXCEPT
                           ![websocket] = Closed(h, WS_1008_POLICY_VIOLATION)]
                    /\ disconnect(websocket, conversation_id)
               ELSE \/ /\ connect(websocket, conversation_id)
                       /\ result'.status = Ok
                       /\ handlers' = [handlers EXCEPT ![websocket] = h]
                    \/ /\ handlers' = [handlers EXCEPT ![websocket] = Closed(h, 0)]
                       /\ disconnect(websocket, conversation_id)

\* The receive loop gets a frame that is not JSON, has not the shape of a
\* WebSocketMessage, or names another sender: an error frame goes to the
\* connection and the loop continues.
\* A plausible slip: the error branch leaves the receive loop instead of
\* continuing it.
receive_invalid_frame_breaks(websocket, kind) ==
    /\ handlers[websocket].pc = "open"
    /\ ~handlers[websocket].client_gone
    /\ result' = ReturnedWith("websocket_frame", kind, websocket)
    /\ handlers' = [handlers EXCEPT ![websocket].pc = "failed"]
    /\ UNCHANGED <<storeVars, registryVars>>

\* `result` names the connection the error frame was sent to.
receive_invalid_frame(websocket, kind) ==
    /\ handlers[websocket].pc = "open"
    /\ ~handlers[websocket].client_gone
    /\ result' = ReturnedWith("websocket_frame", kind, websocket)
    /\ UNCHANGED <<storeVars, registryVars, handlers>>

\* The receive loop gets a valid frame for conversation frame_conversation_id
\* and writes the message row.  The commit fails on the foreign key when the
\* id names no conversation; the handler then reports and ends.
receive_frame(websocket, frame_conversation_id) ==
    /\ handlers[websocket].pc = "open"
    /\ ~handlers[websocket].client_gone
    /\ Len(messages) < MaxFrames
    /\ IF frame_conversation_id \notin DOMAIN conversations
           THEN /\ handlers' = [handlers EXCEPT ![websocket].pc = "failed"]
                /\ result' = Returned("websocket_frame", "IntegrityError")
                /\ UNCHANGED messages
           ELSE \E t \in NextSentAt :
                /\ messages' = Append(messages,
                       [conversation_id |-> frame_conversation_id,
                        sender_id |-> handlers[websocket].user,
                        sent_at |-> t,
                        is_deleted |-> FALSE,
                        status |-> SENT])
                /\ handlers' = [handlers EXCEPT ![websocket].pc = "persisted"]
                /\ result' = Returned("websocket_frame", Ok)
    /\ UNCHANGED <<conversations, participants, read_receipts, conversation_settings,
                   message_reactions, registryVars>>

\* The handler of a call of broadcast_message that has returned goes back to
\* its receive loop, or to its `except Exception` when the call raised.
AfterBroadcast(h, b) ==
    IF b.pc # "idle" THEN [h EXCEPT !.pc = "broadcasting"]
    ELSE IF b.status = Ok THEN [h EXCEPT !.pc = "open"]
    ELSE [h EXCEPT !.pc = "failed"]

\* The handler broadcasts the message it wrote to the connections of its own
\* conversation.
frame_broadcast(websocket) ==
    /\ handlers[websocket].pc = "persisted"
    /\ broadcast_message(handlers[websocket].conv, NoConn)
    /\ handlers' = [handlers EXCEPT ![websocket] = AfterBroadcast(@, bc')]

\* A send of the handler's broadcast returns or raises.
frame_send_completes(websocket, outcome) ==
    /\ handlers[websocket].pc = "broadcasting"
    /\ send_completes(outcome)
    /\ handlers' = [handlers EXCEPT ![websocket] = AfterBroadcast(@, bc')]

\* The client of a connection goes away: the receive_text the handler waits
\* in raises WebSocketDisconnect.  (A client that goes away while the handler
\* is busy is noticed at the handler's next receive_text, which is this step
\* taken then.)
client_disconnects(websocket) ==
    /\ handlers[websocket].pc = "open"
    /\ ~handlers[websocket].client_gone
    /\ handlers' = [handlers EXCEPT ![websocket].client_gone = TRUE]
    /\ UNCHANGED <<storeVars, registryVars, result>>

\* A plausible slip: the loop is left without the `finally` that calls
\* disconnect.
handler_ends_without_finally(websocket) ==
    /\ \/ handlers[websocket].pc = "failed"
       \/ handlers[websocket].pc = "open" /\ handlers[websocket].client_gone
    /\ handlers' = [handlers EXCEPT ![websocket] = Closed(@, 0)]
    /\ UNCHANGED <<storeVars, registryVars, result>>

\* The receive loop is left: the client has disconnected (receive_text raises
\* WebSocketDisconnect), or an error was reported after a failure; `finally`
\* calls disconnect.
handler_ends(websocket) ==
    /\ \/ handlers[websocket].pc = "failed"
       \/ handlers[websocket].pc = "open" /\ handlers[websocket].client_gone
    /\ disconnect(websocket, handlers[websocket].conv)
    /\ handlers' = [handlers EXCEPT ![websocket] = Closed(@, 0)]

----------------------------------------------------------------------------
\* HTTP endpoints and their notifications through pusher_client.  A channel is
\* named by its user ("private-user-<id>") or is the conversation's own
\* ("private-chat-<id>"); `down` is the set of channels a trigger fails on
\* while the request runs.  `pusher` records what the request published and
\* how it answered; `result` keeps what its service call returned.

InternalServerError == "InternalServerError"
NoUser == ""
ChatChannel == "chat"
Channels == Users \cup {ChatChannel}

\* No request has been served.
NoRequest ==
    [served |-> 0, endpoint |-> "none", conv |-> 0, response |-> Ok,
     updated |-> [u \in Users |-> 0], deleted |-> {}, removed |-> NoUser,
     attempted |-> {}, failed |-> {}, raised |-> FALSE]

\* A request that has published nothing yet.
Request(endpoint, conversation_id) ==
    [NoRequest EXCEPT !.served = pusher.served + 1,
                      !.endpoint = endpoint,
                      !.conv = conversation_id]

\* The service call raised an HTTPException: nothing is published.
Rejected(endpoint, conversation_id, status) ==
    [Request(endpoint, conversation_id) EXCEPT !.response = status]

\* The response of a request that got to its return statement, or the 500 of
\* one that an exception left.
Responded(p) ==
    [p EXCEPT !.response = IF p.raised THEN InternalServerError ELSE Ok]

\* select(Participant.user_id).where(Participant.conversation_id == ...): the
\* rows in an order the query does not fix.
participant_user_ids(rows, conversation_id) ==
    LET ids == {r.user_id : r \in {q \in rows : q.conversation_id = conversation_id}}
    IN  {list \in [1 .. Cardinality(ids) -> ids] : Range(list) = ids}

\* try: pusher_client.trigger(...)
\* except json.JSONEncodeError: ...
\* except Exception: ...
\* The json module has no attribute JSONEncodeError: when the trigger raises,
\* matching the first clause raises AttributeError, which leaves the try
\* statement and its caller.
trigger_guarded_by_json_clause(p, channel, down) ==
    IF channel \in down
        THEN [p EXCEPT !.attempted = @ \cup {channel},
                       !.failed = @ \cup {channel},
                       !.raised = TRUE]
        ELSE [p EXCEPT !.attempted = @ \cup {channel}]

\* _trigger_conversation_update_to_participants, from the for statement on:
\* user_ids is specific_user_ids or the participants selected.
RECURSIVE trigger_conversation_update_to_participants(_, _, _, _, _, _)
trigger_conversation_update_to_participants(p, rows, conversation_id, user_ids, exclude_user_id, down) ==
    IF p.raised \/ user_ids = <<>> THEN p
    ELSE LET user_id == Head(user_ids)
             updated_conv_data ==
                 \E r \in rows : /\ r.conversation_id = conversation_id
                                 /\ r.user_id = user_id
             triggered == trigger_guarded_by_json_clause(p, user_id, down)
         IN  IF user_id = exclude_user_id \/ ~updated_conv_data
                 THEN trigger_conversation_update_to_participants(
                          p, rows, conversation_id, Tail(user_ids),
                          exclude_user_id, down)
             ELSE IF triggered.raised THEN triggered
             ELSE trigger_conversation_update_to_participants(
                      [triggered EXCEPT !.updated[user_id] = @ + 1],
                      rows, conversation_id, Tail(user_ids), exclude_user_id, down)

\* A plausible slip: the user who left or was removed is sent the summary like
\* everyone else.
trigger_conversation_deleted_as_update(p, user_id, down) ==
    IF user_id \in down
        THEN [p EXCEPT !.removed = user_id,
                       !.attempted = @ \cup {user_id}, !.failed = @ \cup {user_id}]
        ELSE [p EXCEPT !.removed = user_id,
                       !.attempted = @ \cup {user_id}, !.updated[user_id] = @ + 1]

\* The "conversation-deleted" event for the user who left or was removed: its
\* try statement has the one clause except Exception, which logs.
trigger_conversation_deleted(p, user_id, down) ==
    IF user_id \in down
        THEN [p EXCEPT !.removed = user_id,
                       !.attempted = @ \cup {user_id}, !.failed = @ \cup {user_id}]
        ELSE [p EXCEPT !.removed = user_id,
                       !.attempted = @ \cup {user_id}, !.deleted = @ \cup {user_id}]

\* for user_id in remaining_participant_ids:
\*     await _trigger_conversation_update_to_participants(...,
\*               specific_user_ids=[str(user_id)])
RECURSIVE trigger_each_remaining(_, _, _, _, _)
trigger_each_remaining(p, rows, conversation_id, remaining_participant_ids, down) ==
    IF p.raised \/ remaining_participant_ids = <<>> THEN p
    ELSE trigger_each_remaining(
             trigger_conversation_update_to_participants(
                 p, rows, conversation_id, <<Head(remaining_participant_ids)>>,
                 NoUser, down),
             rows, conversation_id, Tail(remaining_participant_ids), down)

\* create_conversation_endpoint
create_conversation_endpoint(participant_ids, current_user_id, is_group, down) ==
    /\ create_conversation(participant_ids, current_user_id, is_group)
    /\ IF result'.status # Ok
           THEN pusher' = Rejected("create_conversation", 0, result'.status)
           ELSE \E user_ids \in participant_user_ids(participants', result'.value) :
                    pusher' = Responded(trigger_conversation_update_to_participants(
                                  Request("create_conversation", result'.value),
                                  participants', result'.value, user_ids, NoUser, down))
    /\ UNCHANGED <<handlers, sessions>>

\* add_participants_endpoint
add_participants_endpoint(conversation_id, user_ids, current_user_id, down) ==
    /\ add_participants(conversation_id, user_ids, current_user_id)
    /\ IF result'.status # Ok
           THEN pusher' = Rejected("add_participants", conversation_id, result'.status)
           ELSE \E ids \in participant_user_ids(participants', conversation_id) :
                    pusher' = Responded(trigger_conversation_update_to_participants(
                                  Request("add_participants", conversation_id),
                                  participants', conversation_id, ids, NoUser, down))
    /\ UNCHANGED <<handlers, sessions>>

\* update_participant_role_endpoint
update_participant_role_endpoint(conversation_id, participant_user_id, role, current_user_id, down) ==
    /\ update_participant_role(conversation_id, participant_user_id, role,
                               current_user_id)
    /\ IF result'.status # Ok
           THEN pusher' = Rejected("update_participant_role", conversation_id,
                                   result'.status)
           ELSE \E ids \in participant_user_ids(participants', conversation_id) :
                    pusher' = Responded(trigger_conversation_update_to_participants(
                                  Request("update_participant_role", conversation_id),
                                  participants', conversation_id, ids, NoUser, down))
    /\ UNCHANGED <<handlers, sessions>>

\* remove_participant_endpoint
remove_participant_endpoint(conversation_id, participant_user_id, current_user_id, down) ==
    /\ remove_participant(conversation_id, participant_user_id, current_user_id)
    /\ IF result'.status # Ok
           THEN pusher' = Rejected("remove_participant", conversation_id,
                                   result'.status)
           ELSE \E remaining_participant_ids \in
                        participant_user_ids(participants', conversation_id) :
                    pusher' = Responded(trigger_each_remaining(
                                  trigger_conversation_deleted(
                                      Request("remove_participant", conversation_id),
                                      participant_user_id, down),
                                  participants', conversation_id,
                                  remaining_participant_ids, down))
    /\ UNCHANGED <<handlers, sessions>>

\* leave_conversation_endpoint
leave_conversation_endpoint(conversation_id, current_user_id, down) ==
    /\ leave_conversation(conversation_id, current_user_id)
    /\ IF result'.status # Ok
           THEN pusher' = Rejected("leave_conversation", conversation_id,
                                   result'.status)
           ELSE \E remaining_participant_ids \in
                        participant_user_ids(participants', conversation_id) :
                    pusher' = Responded(trigger_each_remaining(
                                  trigger_conversation_deleted(
                                      Request("leave_conversation", conversation_id),
                                      current_user_id, down),
                                  participants', conversation_id,
                                  remaining_participant_ids, down))
    /\ UNCHANGED <<handlers, sessions>>

\* create_message_endpoint: the "new-message" event on the conversation's
\* channel, then the summaries for everyone but the sender.
create_message_endpoint(conversation_id, current_user_id, down) ==
    /\ create_message(conversation_id, current_user_id)
    /\ IF result'.status # Ok
           THEN pusher' = Rejected("create_message", conversation_id, result'.status)
           ELSE \E ids \in participant_user_ids(participants', conversation_id) :
                    pusher' = Responded(trigger_conversation_update_to_participants(
                                  trigger_guarded_by_json_clause(
                                      Request("create_message", conversation_id),
                                      ChatChannel, down),
                                  participants', conversation_id, ids,
                                  current_user_id, down))
    /\ UNCHANGED <<handlers, sessions>>

\* mark_messages_as_read_endpoint.  MessageService.mark_messages_as_read has no
\* return value: `for message_response in updated_messages_for_sender` iterates
\* None and raises TypeError before any trigger is reached.
mark_messages_as_read_endpoint(conversation_id, current_user_id, message_ids) ==
    /\ mark_messages_as_read(conversation_id, current_user_id, message_ids)
    /\ IF result'.status # Ok
           THEN pusher' = Rejected("mark_messages_as_read", conversation_id,
                                   result'.status)
           ELSE pusher' = Responded([Request("mark_messages_as_read", conversation_id)
                                         EXCEPT !.raised = TRUE])
    /\ UNCHANGED <<handlers, sessions>>

----------------------------------------------------------------------------
\* mark_messages_as_read, one await at a time.  Every request has a database
\* session of its own (get_db); what it adds is written when it commits, and
\* message_read_receipts has the primary key (message_id, user_id).

Sessions == {"s1", "s2"}

IdleSession ==
    [pc |-> "idle", conv |-> 0, user |-> NoUser, message_ids |-> {},
     existing_receipts |-> {}, participant_ids |-> {}, is_group |-> FALSE,
     status |-> Ok]

\* No mark-as-read request is in flight.
NoSessions == [s \in Sessions |-> IdleSession]

\* The call up to its select of the receipts the user already has.
mark_select_existing(s, conversation_id, user_id, message_ids) ==
    LET call == [IdleSession EXCEPT !.conv = conversation_id,
                                    !.user = user_id,
                                    !.message_ids = message_ids]
    IN  /\ sessions[s].pc \in {"idle", "done"}
        /\ IF message_ids = {}
               THEN sessions' = [sessions EXCEPT ![s] = [call EXCEPT !.pc = "done"]]
               ELSE IF ~IsParticipant(conversation_id, user_id)
               THEN sessions' = [sessions EXCEPT ![s] =
                                    [call EXCEPT !.pc = "done", !.status = Forbidden]]
               ELSE sessions' = [sessions EXCEPT ![s] =
                        [call EXCEPT !.pc = "selected",
                                     !.existing_receipts =
                                         {m \in message_ids :
                                             <<m, user_id>> \in read_receipts}]]
        /\ UNCHANGED <<storeVars, registryVars, handlers, pusher, result>>

\* The rows the call adds to its session: the ids it found no receipt for
\* that are messages of the conversation.
new_receipts(call) ==
    {<<m, call.user>> :
        m \in {n \in (call.message_ids \ call.existing_receipts) \cap ExistingMsgIds :
                   messages[n].conversation_id = call.conv}}

\* The rest of the call: the commit of the added rows, which the primary key
\* fails when one of them has been committed by another session since the
\* select, then the update of the watermark.
mark_commit(s) ==
    LET call == sessions[s]
    IN  /\ call.pc = "selected"
        /\ IF new_receipts(call) \cap read_receipts # {}
               THEN /\ sessions' = [sessions EXCEPT ![s].pc = "done",
                                                    ![s].status = "IntegrityError"]
                    /\ result' = Returned("mark_messages_as_read", "IntegrityError")
                    /\ UNCHANGED <<read_receipts, conversation_settings>>
               ELSE /\ sessions' = [sessions EXCEPT ![s].pc = "done"]
                    /\ result' = Returned("mark_messages_as_read", Ok)
                    /\ read_receipts' = read_receipts \cup new_receipts(call)
                    /\ conversation_settings' \in
                           mark_settings(conversation_settings, call.conv, call.user,
                                         call.message_ids)
        /\ UNCHANGED <<conversations, participants, messages, message_reactions,
                       registryVars, handlers, pusher>>


----------------------------------------------------------------------------
\* create_conversation, one await at a time, on a database session of its
\* own.  No constraint of the schema relates a conversation to the set of its
\* participants; its id is a fresh uuid.

\* The call up to the lookup of an existing direct conversation.
create_find_existing(s, participant_ids, creator_id, is_group) ==
    LET ids == participant_ids \cup {creator_id}
        call == [IdleSession EXCEPT !.user = creator_id,
                                    !.participant_ids = ids,
                                    !.is_group = is_group]
        existing == UNION {IF u1 # u2 THEN find_direct_conversation(u1, u2) ELSE {} :
                              u1 \in ids, u2 \in ids}
    IN  /\ sessions[s].pc \in {"idle", "done"}
        /\ IF ~(ids \subseteq Users)
               THEN sessions' = [sessions EXCEPT ![s] =
                                    [call EXCEPT !.pc = "done", !.status = BadRequest]]
               ELSE IF ~is_group /\ Cardinality(ids) = 2 /\ existing # {}
               THEN \E found \in existing :
                        sessions' = [sessions EXCEPT ![s] =
                                        [call EXCEPT !.pc = "done", !.conv = found]]
               ELSE sessions' = [sessions EXCEPT ![s] = [call EXCEPT !.pc = "creating"]]
        /\ UNCHANGED <<storeVars, registryVars, handlers, pusher, result>>

\* The rest of the call: the conversation and its participant rows are
\* written and committed.
create_commit(s) ==
    LET call == sessions[s]
    IN  /\ call.pc = "creating"
        /\ Cardinality(DOMAIN conversations) < MaxConvs
        /\ conversations' = conversations @@
               (NewConversationId :>
                   [is_group |-> call.is_group, created_by |-> call.user])
        /\ participants' = participants \cup
               created_participants(NewConversationId, call.participant_ids, call.user)
        /\ sessions' = [sessions EXCEPT ![s].pc = "done",
                                        ![s].conv = NewConversationId]
        /\ result' = ReturnedWith("create_conversation", Ok, NewConversationId)
        /\ UNCHANGED <<messages, read_receipts, conversation_settings,
                       message_reactions, registryVars, handlers, pusher>>

----------------------------------------------------------------------------
\* Initial states and specifications.

\* No connection has been opened: no handler runs.
NewHandler ==
    [pc |-> "new", conv |-> 0, user |-> "", close_code |-> 0,
     token_ok |-> FALSE, participant_found |-> FALSE, client_gone |-> FALSE]
NoHandlers == [w \in Conns |-> NewHandler]

\* WebSocketManager.__init__: no key, no connection, no broadcast made.
EmptyRegistry ==
    /\ active_connections = <<>>
    /\ accepted = {}
    /\ bc = NoBroadcast
    /\ sent = [w \in Conns |-> 0]

\* The message store in use: the direct conversation 1 that A opened with B
\* (C is a user outside it, other ids name no conversation), no message sent
\* yet.
InitMsg ==
    /\ conversations = (1 :> [is_group |-> FALSE, created_by |-> "A"])
    /\ participants = created_participants(1, {"A", "B"}, "A")
    /\ messages = <<>>
    /\ read_receipts = {}
    /\ conversation_settings = {}
    /\ message_reactions = EmptyBag
    /\ EmptyRegistry
    /\ handlers = NoHandlers
    /\ pusher = NoRequest
    /\ sessions = NoSessions
    /\ result = Returned("none", Ok)

CreateMessage ==
    \E c \in ConvIds, u \in Users : create_message(c, u) /\ UNCHANGED requestVars
DeleteMessage ==
    \E m \in MsgIds, u \in Users : delete_message(m, u) /\ UNCHANGED requestVars
MarkAsRead ==
    \E c \in DOMAIN conversations, u \in Users, ids \in SUBSET MsgIds :
        mark_messages_as_read(c, u, ids) /\ UNCHANGED requestVars

NextMsg == CreateMessage \/ DeleteMessage \/ MarkAsRead

SpecMsg == InitMsg /\ [][NextMsg]_vars

\* Messages and mark-as-read calls on two conversations that share A: the
\* direct conversation 1 of A and B and the direct conversation 2 of A and C.
InitCross ==
    /\ conversations = (1 :> [is_group |-> FALSE, created_by |-> "A"]) @@
                       (2 :> [is_group |-> FALSE, created_by |-> "A"])
    /\ participants = created_participants(1, {"A", "B"}, "A") \cup
                      created_participants(2, {"A", "C"}, "A")
    /\ messages = <<>>
    /\ read_receipts = {}
    /\ conversation_settings = {}
    /\ message_reactions = EmptyBag
    /\ EmptyRegistry
    /\ handlers = NoHandlers
    /\ pusher = NoRequest
    /\ sessions = NoSessions
    /\ result = Returned("none", Ok)

SpecCross == InitCross /\ [][NextMsg]_vars

\* Reactions: the direct conversation of A and B after each sent one message.
InitReact ==
    /\ conversations = (1 :> [is_group |-> FALSE, created_by |-> "A"])
    /\ participants = created_participants(1, {"A", "B"}, "A")
    /\ messages =
          <<[conversation_id |-> 1, sender_id |-> "A", sent_at |-> 1,
             is_deleted |-> FALSE, status |-> SENT],
            [conversation_id |-> 1, sender_id |-> "B", sent_at |-> 2,
             is_deleted |-> FALSE, status |-> SENT]>>
    /\ read_receipts = {}
    /\ conversation_settings = {}
    /\ message_reactions = EmptyBag
    /\ EmptyRegistry
    /\ handlers = NoHandlers
    /\ pusher = NoRequest
    /\ sessions = NoSessions
    /\ result = Returned("none", Ok)

AddReaction ==
    \E m \in MsgIds, u \in Users, e \in Emojis : add_message_reaction(m, u, e) /\ UNCHANGED requestVars
RemoveReaction ==
    \E m \in MsgIds, u \in Users, e \in Emojis : remove_message_reaction(m, u, e) /\ UNCHANGED requestVars

NextReact == AddReaction \/ RemoveReaction \/ DeleteMessage

SpecReact == InitReact /\ [][NextReact]_vars

\* Conversation creation on an empty store. "Z" is the id of no user.
InitCreate ==
    /\ conversations = <<>>
    /\ participants = {}
    /\ messages = <<>>
    /\ read_receipts = {}
    /\ conversation_settings = {}
    /\ message_reactions = EmptyBag
    /\ EmptyRegistry
    /\ handlers = NoHandlers
    /\ pusher = NoRequest
    /\ sessions = NoSessions
    /\ result = Returned("none", Ok)

\* ConversationCreate.participant_ids and ParticipantAdd.user_ids have
\* min_items=1: the lists a request can carry.
ParticipantLists(ids) == (SUBSET ids) \ {{}}

CreateConversation ==
    \E ids \in ParticipantLists(Users \cup {"Z"}), creator \in Users, g \in BOOLEAN :
        create_conversation(ids, creator, g) /\ UNCHANGED requestVars

NextCreate == CreateConversation

SpecCreate == InitCreate /\ [][NextCreate]_vars

\* Membership of the group 1 that A created with B and C.
InitMembers ==
    /\ conversations = (1 :> [is_group |-> TRUE, created_by |-> "A"])
    /\ participants = created_participants(1, {"A", "B", "C"}, "A")
    /\ messages = <<>>
    /\ read_receipts = {}
    /\ conversation_settings = {}
    /\ message_reactions = EmptyBag
    /\ EmptyRegistry
    /\ handlers = NoHandlers
    /\ pusher = NoRequest
    /\ sessions = NoSessions
    /\ result = Returned("none", Ok)

AddParticipants ==
    \E c \in ConvIds, ids \in ParticipantLists(Users \cup {"Z"}), u \in Users :
        add_participants(c, ids, u) /\ UNCHANGED requestVars
RemoveParticipant ==
    \E c \in ConvIds, target \in Users, u \in Users :
        remove_participant(c, target, u) /\ UNCHANGED requestVars
UpdateParticipantRole ==
    \E c \in ConvIds, target \in Users, r \in {ADMIN, MODERATOR, MEMBER}, u \in Users :
        update_participant_role(c, target, r, u) /\ UNCHANGED requestVars
LeaveConversation ==
    \E c \in ConvIds, u \in Users : leave_conversation(c, u) /\ UNCHANGED requestVars

NextMembers ==
    AddParticipants \/ RemoveParticipant \/ UpdateParticipantRole \/ LeaveConversation

SpecMembers == InitMembers /\ [][NextMembers]_vars

\* The connection registry of a fresh process.
InitReg ==
    /\ conversations = <<>>
    /\ participants = {}
    /\ messages = <<>>
    /\ read_receipts = {}
    /\ conversation_settings = {}
    /\ message_reactions = EmptyBag
    /\ EmptyRegistry
    /\ handlers = NoHandlers
    /\ pusher = NoRequest
    /\ sessions = NoSessions
    /\ result = Returned("none", Ok)

Connect == \E w \in Conns, c \in ConvIds : connect(w, c) /\ UNCHANGED requestVars
Disconnect == \E w \in Conns, c \in ConvIds : disconnect(w, c) /\ UNCHANGED requestVars
BroadcastMessage ==
    \E c \in ConvIds, x \in Conns \cup {NoConn} :
        broadcast_message(c, x) /\ UNCHANGED requestVars
SendCompletes ==
    \E outcome \in {Ok, "WebSocketDisconnect", "Exception"} :
        send_completes(outcome) /\ UNCHANGED requestVars

NextReg == Connect \/ Disconnect \/ BroadcastMessage \/ SendCompletes

SpecReg == InitReg /\ [][NextReg]_vars

\* Connection handlers on a store with the direct conversations 1 of A and B
\* and 2 of A and C.
InitWs ==
    /\ conversations = (1 :> [is_group |-> FALSE, created_by |-> "A"])
                       @@ (2 :> [is_group |-> FALSE, created_by |-> "A"])
    /\ participants = created_participants(1, {"A", "B"}, "A")
                      \cup created_participants(2, {"A", "C"}, "A")
    /\ messages = <<>>
    /\ read_receipts = {}
    /\ conversation_settings = {}
    /\ message_reactions = EmptyBag
    /\ EmptyRegistry
    /\ handlers = NoHandlers
    /\ pusher = NoRequest
    /\ sessions = NoSessions
    /\ result = Returned("none", Ok)

WsConns == {"w1", "w2"}

WebsocketEndpoint ==
    \E w \in WsConns, c \in ConvIds, u \in Users, t \in Users \cup {"invalid"} :
        websocket_endpoint(w, c, u, t) /\ UNCHANGED <<pusher, sessions>>
ReceiveInvalidFrame ==
    \E w \in WsConns, kind \in {"Invalid JSON format", "Invalid message format",
                                "Sender ID mismatch"} :
        receive_invalid_frame(w, kind) /\ UNCHANGED <<pusher, sessions>>
ReceiveFrame ==
    \E w \in WsConns, c \in ConvIds \cup {0} :
        receive_frame(w, c) /\ UNCHANGED <<pusher, sessions>>
FrameBroadcast ==
    \E w \in WsConns : frame_broadcast(w) /\ UNCHANGED <<pusher, sessions>>
FrameSendCompletes ==
    \E w \in WsConns, outcome \in {Ok, "WebSocketDisconnect", "Exception"} :
        frame_send_completes(w, outcome) /\ UNCHANGED <<pusher, sessions>>
ClientDisconnects ==
    \E w \in WsConns : client_disconnects(w) /\ UNCHANGED <<pusher, sessions>>
HandlerEnds ==
    \E w \in WsConns : handler_ends(w) /\ UNCHANGED <<pusher, sessions>>

NextWs ==
    \/ WebsocketEndpoint \/ ReceiveInvalidFrame \/ ReceiveFrame
    \/ FrameBroadcast \/ FrameSendCompletes \/ ClientDisconnects \/ HandlerEnds

SpecWs == InitWs /\ [][NextWs]_vars

\* The event loop keeps running the handlers that can go on: a handler whose
\* receive_text has raised, or that has a broadcast to start, is resumed, and
\* an awaited send returns or raises.
FairWs ==
    /\ WF_vars(HandlerEnds)
    /\ WF_vars(FrameBroadcast)
    /\ WF_vars(FrameSendCompletes)

SpecWsFair == InitWs /\ [][NextWs]_vars /\ FairWs

\* Connection handlers that receive valid frames while participants leave.
NextKick ==
    \/ WebsocketEndpoint \/ ReceiveFrame \/ FrameBroadcast \/ FrameSendCompletes
    \/ ClientDisconnects \/ HandlerEnds \/ LeaveConversation

SpecKick == InitWs /\ [][NextKick]_vars

\* The HTTP endpoints on a store with the group 1 that A created with B.
InitNotify ==
    /\ conversations = (1 :> [is_group |-> TRUE, created_by |-> "A"])
    /\ participants = created_participants(1, {"A", "B"}, "A")
    /\ messages = <<>>
    /\ read_receipts = {}
    /\ conversation_settings = {}
    /\ message_reactions = EmptyBag
    /\ EmptyRegistry
    /\ handlers = NoHandlers
    /\ pusher = NoRequest
    /\ sessions = NoSessions
    /\ result = Returned("none", Ok)

CreateConversationEndpoint ==
    \E ids \in ParticipantLists(Users), creator \in Users, g \in BOOLEAN,
       down \in SUBSET Channels :
        pusher.served < MaxRequests /\ create_conversation_endpoint(ids, creator, g, down)
AddParticipantsEndpoint ==
    \E c \in ConvIds, ids \in ParticipantLists(Users), u \in Users,
       down \in SUBSET Channels :
        pusher.served < MaxRequests /\ add_participants_endpoint(c, ids, u, down)
UpdateParticipantRoleEndpoint ==
    \E c \in ConvIds, target \in Users, r \in {ADMIN, MODERATOR, MEMBER}, u \in Users,
       down \in SUBSET Channels :
        pusher.served < MaxRequests /\ update_participant_role_endpoint(c, target, r, u, down)
RemoveParticipantEndpoint ==
    \E c \in ConvIds, target \in Users, u \in Users, down \in SUBSET Channels :
        pusher.served < MaxRequests /\ remove_participant_endpoint(c, target, u, down)
LeaveConversationEndpoint ==
    \E c \in ConvIds, u \in Users, down \in SUBSET Channels :
        pusher.served < MaxRequests /\ leave_conversation_endpoint(c, u, down)
CreateMessageEndpoint ==
    \E c \in ConvIds, u \in Users, down \in SUBSET Channels :
        pusher.served < MaxRequests /\ create_message_endpoint(c, u, down)
MarkAsReadEndpoint ==
    \E c \in ConvIds, u \in Users, ids \in SUBSET MsgIds :
        pusher.served < MaxRequests /\ mark_messages_as_read_endpoint(c, u, ids)

NextNotify ==
    \/ CreateConversationEndpoint \/ AddParticipantsEndpoint
    \/ UpdateParticipantRoleEndpoint \/ RemoveParticipantEndpoint
    \/ LeaveConversationEndpoint \/ CreateMessageEndpoint \/ MarkAsReadEndpoint

SpecNotify == InitNotify /\ [][NextNotify]_vars

\* Membership requests and their fan-out on the group of A (admin), B and C.
InitLeave ==
    /\ conversations = (1 :> [is_group |-> TRUE, created_by |-> "A"])
    /\ participants = created_participants(1, {"A", "B", "C"}, "A")
    /\ messages = <<>>
    /\ read_receipts = {}
    /\ conversation_settings = {}
    /\ message_reactions = EmptyBag
    /\ EmptyRegistry
    /\ handlers = NoHandlers
    /\ pusher = NoRequest
    /\ sessions = NoSessions
    /\ result = Returned("none", Ok)

NextLeave ==
    \/ RemoveParticipantEndpoint \/ LeaveConversationEndpoint
    \/ AddParticipantsEndpoint \/ UpdateParticipantRoleEndpoint

SpecLeave == InitLeave /\ [][NextLeave]_vars

\* Concurrent mark-as-read requests on the direct conversation of A and B
\* after each sent one message.
InitMark ==
    /\ conversations = (1 :> [is_group |-> FALSE, created_by |-> "A"])
    /\ participants = created_participants(1, {"A", "B"}, "A")
    /\ messages =
          <<[conversation_id |-> 1, sender_id |-> "A", sent_at |-> 1,
             is_deleted |-> FALSE, status |-> SENT],
            [conversation_id |-> 1, sender_id |-> "B", sent_at |-> 2,
             is_deleted |-> FALSE, status |-> SENT]>>
    /\ read_receipts = {}
    /\ conversation_settings = {}
    /\ message_reactions = EmptyBag
    /\ EmptyRegistry
    /\ handlers = NoHandlers
    /\ pusher = NoRequest
    /\ sessions = NoSessions
    /\ result = Returned("none", Ok)

MarkSelectExisting ==
    \E s \in Sessions, c \in ConvIds, u \in Users, ids \in SUBSET MsgIds :
        mark_select_existing(s, c, u, ids)
MarkCommit == \E s \in Sessions : mark_commit(s)

NextMark == MarkSelectExisting \/ MarkCommit

SpecMark == InitMark /\ [][NextMark]_vars

\* Concurrent create_conversation requests on an empty store.
InitDedup ==
    /\ conversations = <<>>
    /\ participants = {}
    /\ messages = <<>>
    /\ read_receipts = {}
    /\ conversation_settings = {}
    /\ message_reactions = EmptyBag
    /\ EmptyRegistry
    /\ handlers = NoHandlers
    /\ pusher = NoRequest
    /\ sessions = NoSessions
    /\ result = Returned("none", Ok)

CreateFindExisting ==
    \E s \in Sessions, ids \in ParticipantLists(Users), creator \in Users, g \in BOOLEAN :
        create_find_existing(s, ids, creator, g)
CreateCommit == \E s \in Sessions : create_commit(s)

NextDedup == CreateFindExisting \/ CreateCommit

SpecDedup == InitDedup /\ [][NextDedup]_vars

----------------------------------------------------------------------------
\* Unread count and read state: C1 - C5, checked under SpecMsg.

MsgsOf(conversation_id) ==
    {m \in ExistingMsgIds : messages[m].conversation_id = conversation_id}

\* The sent_at of the message the user's settings row names; 0 without one.
WatermarkTime(settings, conversation_id, user_id) ==
    SentAtOf(LastReadMessageId(settings, conversation_id, user_id))

\* C1: for every user U and conversation C, in every reachable state,
\* unread_count(U,C) is at most the number of non-deleted messages of C sent by
\* users other than U: no message U sent is counted.
C1_UnreadExcludesOwn ==
    \A c \in ConvIds, u \in Users :
        get_unread_count(c, u) <=
            Cardinality({m \in MsgsOf(c) :
                ~messages[m].is_deleted /\ messages[m].sender_id # u})

\* A user who has sent a message that is still there has an unread message.
C1_Witness ==
    \E u \in Users :
        /\ get_unread_count(1, u) >= 1
        /\ \E m \in MsgsOf(1) : messages[m].sender_id = u /\ ~messages[m].is_deleted

\* The reference formula of C2: the watermark time is the larger of the stored
\* watermark's sent_at and the sent_at of the most recent message the user sent
\* in the conversation.
ReferenceWatermark(conversation_id, user_id) ==
    MaxOf({0, WatermarkTime(conversation_settings, conversation_id, user_id)}
          \cup {messages[m].sent_at : m \in {n \in MsgsOf(conversation_id) :
                                                messages[n].sender_id = user_id}})

ReferenceUnread(conversation_id, user_id) ==
    LET wm == ReferenceWatermark(conversation_id, user_id)
    IN  Cardinality({m \in MsgsOf(conversation_id) :
            /\ ~messages[m].is_deleted
            /\ messages[m].sender_id # user_id
            /\ (wm # 0 => messages[m].sent_at > wm)})

\* C2: in every state unread_count(U,C) equals the reference formula (the
\* watermark time being the max of the stored watermark's sent_at and the
\* sent_at of the most recent message U sent in C).
C2_UnreadEqualsReference ==
    \A c \in ConvIds, u \in Users :
        get_unread_count(c, u) = ReferenceUnread(c, u)

\* C3: across createMessage and markAsRead calls, the sent_at of the message a
\* user's last_read_message_id names never decreases.
C3_WatermarkMonotone ==
    [][result'.op \in {"create_message", "mark_messages_as_read"} =>
          \A c \in ConvIds, u \in Users :
              WatermarkTime(conversation_settings, c, u)'
                  >= WatermarkTime(conversation_settings, c, u)]_vars

\* C4: markAsRead is idempotent. In every reachable state, for every participant
\* U of C and every id set S, the call markAsRead(C,U,S) made on the state that
\* markAsRead(C,U,S) leaves raises no error and leaves the read receipts, the
\* watermark of (U,C) and unread_count(U,C) of that state.
C4_MarkAsReadIdempotent ==
    \A c \in ConvIds, u \in Users :
        IsParticipant(c, u) =>
            \A ids \in SUBSET MsgIds :
                LET once == mark_receipts(read_receipts, c, u, ids)
                IN  /\ mark_status(once, c, u, ids) = Ok
                    /\ mark_receipts(once, c, u, ids) = once
                    /\ \A s1 \in mark_settings(conversation_settings, c, u, ids) :
                           \A s2 \in mark_settings(s1, c, u, ids) :
                               \/ s2 = s1
                               \/ /\ WatermarkTime(s2, c, u) = WatermarkTime(s1, c, u)
                                  /\ unread_count(s2, c, u) = unread_count(s1, c, u)

\* A mark-read call has returned and left receipts on two messages and a
\* watermark: the state in which the call is made again.
C4_Witness ==
    /\ result = Returned("mark_messages_as_read", Ok)
    /\ \E u \in Users :
          /\ IsParticipant(1, u)
          /\ Cardinality({m \in MsgsOf(1) : <<m, u>> \in read_receipts}) >= 2
          /\ LastReadMessageId(conversation_settings, 1, u) \in LatestMessageIds(MsgsOf(1))
          /\ mark_receipts(read_receipts, 1, u, MsgsOf(1)) = read_receipts

\* Conversation c is a direct conversation of exactly a and b.
DirectPair(conversation_id, a, b) ==
    /\ a # b
    /\ conversation_id \in DOMAIN conversations
    /\ ~conversations[conversation_id].is_group
    /\ {p.user_id : p \in {q \in participants :
                              q.conversation_id = conversation_id}} = {a, b}

\* All that happened in the conversation is that a sent n >= 1 messages.
OnlySends(conversation_id, a) ==
    /\ MsgsOf(conversation_id) # {}
    /\ \A m \in MsgsOf(conversation_id) :
          /\ messages[m].sender_id = a
          /\ ~messages[m].is_deleted
          /\ \A u \in Users : <<m, u>> \notin read_receipts
    /\ \A s \in conversation_settings : s.conversation_id # conversation_id

\* C5: in a direct conversation of A and B in which nothing happened but A
\* sending n >= 1 messages, unread_count(B) = n and unread_count(A) = 0, and in
\* the state B's markAsRead of all n ids leaves, unread_count(B) = 0 and
\* unread_count(A) = 0.
C5_SendThenReadScenario ==
    \A c \in ConvIds, a \in Users, b \in Users :
        (DirectPair(c, a, b) /\ OnlySends(c, a)) =>
            /\ get_unread_count(c, b) = Cardinality(MsgsOf(c))
            /\ get_unread_count(c, a) = 0
            /\ \A ids \in SUBSET MsgIds :
                   MsgsOf(c) \subseteq ids =>
                       /\ mark_status(read_receipts, c, b, ids) = Ok
                       /\ \A s1 \in mark_settings(conversation_settings, c, b, ids) :
                              /\ unread_count(s1, c, b) = 0
                              /\ unread_count(s1, c, a) = 0

\* A has sent two messages and B has marked them all read.
C5_Witness ==
    /\ result = Returned("mark_messages_as_read", Ok)
    /\ DirectPair(1, "A", "B")
    /\ Cardinality(MsgsOf(1)) >= 2
    /\ \A m \in MsgsOf(1) : messages[m].sender_id = "A" /\ ~messages[m].is_deleted
    /\ read_receipts = {<<m, "B">> : m \in MsgsOf(1)}
    /\ \A s \in conversation_settings : s.user_id = "B"
    /\ get_unread_count(1, "B") = 0

----------------------------------------------------------------------------
\* Direct-conversation dedup: C6, checked under SpecCreate.

\* C6: once a direct conversation of the pair {A,B} exists (made by an earlier
\* createConversation(isGroup=false) for the pair), every later such call for
\* the pair, by either user and with the ids given in either form, succeeds,
\* returns that conversation's id and leaves the conversation and participant
\* rows as they are, whatever other conversations A or B are in.
C6_DirectCreateIdempotent ==
    [][\A c \in DOMAIN conversations :
          (\E a \in Users, b \in Users : DirectPair(c, a, b)) =>
              \A creator \in ParticipantIdsOf(c), ids \in SUBSET ParticipantIdsOf(c) :
                  (ids \cup {creator} = ParticipantIdsOf(c)
                     /\ create_conversation(ids, creator, FALSE)) =>
                      /\ result'.status = Ok
                      /\ result'.value = c
                      /\ conversations' = conversations
                      /\ participants' = participants]_vars

\* A has a direct conversation with B and a later one with C, and a further
\* call for the pair {A,B} has returned the first.
C6_Witness ==
    /\ DirectPair(1, "A", "B")
    /\ DirectPair(2, "A", "C")
    /\ result = ReturnedWith("create_conversation", Ok, 1)

----------------------------------------------------------------------------
\* Group roles: C7, checked under SpecMembers.

----------------------------------------------------------------------------
\* Reaction uniqueness: C8, checked under SpecReact.

\* C8: for a message M that is there, a participant U and an emoji E,
\* addReaction(M,U,E) made while there is no (M,U,E) row succeeds and leaves
\* exactly one such row; made while there is one it fails with Conflict and
\* leaves the reactions as they are, with exactly one such row.
C8_ReactionUnique ==
    [][\A m \in MsgIds, u \in Users, e \in Emojis :
          (/\ m \in ExistingMsgIds
           /\ ~messages[m].is_deleted
           /\ IsParticipant(messages[m].conversation_id, u)
           /\ add_message_reaction(m, u, e)) =>
              IF CopiesIn(ReactionRow(m, u, e), message_reactions) = 0
                  THEN /\ result'.status = Ok
                       /\ CopiesIn(ReactionRow(m, u, e), message_reactions') = 1
                  ELSE /\ result'.status = Conflict
                       /\ message_reactions' = message_reactions
                       /\ CopiesIn(ReactionRow(m, u, e), message_reactions') = 1]_vars

\* A second addReaction has been refused and the one row is there.
C8_Witness ==
    /\ result = Returned("add_message_reaction", Conflict)
    /\ \E m \in ExistingMsgIds, u \in Users, e \in Emojis :
          /\ ~messages[m].is_deleted
          /\ CopiesIn(ReactionRow(m, u, e), message_reactions) = 1

----------------------------------------------------------------------------
\* Connection registry: C9 and C10, checked under SpecReg.

\* C9: a broadcast that has returned, during which no other handler changed the
\* registry and no send failed, did not raise and sent its payload exactly once
\* to each connection that was registered under its conversation when it was
\* called, except excludeConn, and to no other connection.
C9_BroadcastExactlyOnce ==
    (bc.pc = "idle" /\ ~bc.interleaved /\ ~bc.failed) =>
        /\ bc.status = Ok
        /\ \A w \in Conns :
               sent[w] = IF w \in Range(bc.start) /\ w # bc.exclude THEN 1 ELSE 0

\* Of two connections on a conversation one has disconnected, and a broadcast
\* without failure or interleaving has reached exactly the one that remains.
C9_Witness ==
    /\ bc.pc = "idle" /\ ~bc.interleaved /\ ~bc.failed
    /\ result = Returned("broadcast_message", Ok)
    /\ Len(bc.start) = 1
    /\ Bucket(bc.conv) = bc.start
    /\ \E w \in accepted : \A k \in DOMAIN active_connections :
           w \notin Range(active_connections[k])
    /\ \A w \in Conns : sent[w] = IF w \in Range(bc.start) THEN 1 ELSE 0

\* C10: the registry holds no key with an empty list: a key is present exactly
\* when at least one connection is registered under it.
C10_NoEmptyBuckets ==
    \A k \in ConvIds :
        (k \in DOMAIN active_connections) <=> (Range(Bucket(k)) # {})

\* The last connection of a conversation has disconnected and its key is gone,
\* while another conversation still has one.
C10_Witness ==
    /\ result = Returned("disconnect", Ok)
    /\ \E w \in accepted : \A k \in DOMAIN active_connections :
           w \notin Range(active_connections[k])
    /\ \E k \in ConvIds : k \notin DOMAIN active_connections
    /\ \E k \in ConvIds : k \in DOMAIN active_connections

----------------------------------------------------------------------------
\* Connection handlers: C11, checked under SpecWs.

\* C11: a connection is registered only by a handler that found its token good
\* for the path user and that user a participant of the path conversation, and
\* it is registered under that conversation; a handler one of whose checks
\* failed was closed with policy-violation, and the step that closes it, its
\* final disconnect included, leaves the registry as it was.
C11_RegisteredAfterChecks ==
    [][/\ \A k \in DOMAIN active_connections' :
              \A w \in Range(active_connections'[k]) :
                  /\ handlers'[w].pc \notin {"new", "closed"}
                  /\ handlers'[w].conv = k
                  /\ handlers'[w].token_ok
                  /\ handlers'[w].participant_found
       /\ \A w \in Conns :
              (handlers[w].pc = "new" /\ handlers'[w].pc # "new"
                 /\ ~(handlers'[w].token_ok /\ handlers'[w].participant_found)) =>
                  /\ handlers'[w].pc = "closed"
                  /\ handlers'[w].close_code = WS_1008_POLICY_VIOLATION
                  /\ active_connections' = active_connections]_vars

\* While a connection of B is registered under conversation 1, a handler whose
\* checks failed has been closed with policy-violation.
C11_Witness ==
    /\ \E w \in Conns :
          /\ handlers[w].pc = "closed"
          /\ handlers[w].close_code = WS_1008_POLICY_VIOLATION
          /\ handlers[w].token_ok
          /\ ~handlers[w].participant_found
    /\ \E w \in Range(Bucket(1)) : handlers[w].user = "B"

----------------------------------------------------------------------------
\* Notifications of the HTTP endpoints: C12, C13, checked under SpecNotify.

\* The requests whose mutation every participant's conversation list shows.
FanOutEndpoints ==
    {"create_conversation", "add_participants", "update_participant_role",
     "create_message", "mark_messages_as_read"}

\* C12: when one of these requests has committed its mutation and no trigger
\* of it has failed, every current participant of its conversation has been
\* sent exactly one "conversation-updated" event on their own channel.
C12_ExactlyOnce ==
    (/\ pusher.endpoint \in FanOutEndpoints
     /\ result.status = Ok
     /\ pusher.failed = {})
        => \A u \in ParticipantIdsOf(pusher.conv) : pusher.updated[u] = 1

\* The users a request's "conversation-updated" fan-out is for: the current
\* participants, but for the sender of a new message.
FanOutRecipients ==
    IF pusher.endpoint = "create_message"
        THEN ParticipantIdsOf(pusher.conv) \ {messages[Len(messages)].sender_id}
        ELSE ParticipantIdsOf(pusher.conv)

\* C13: when a trigger fails in a request that has committed its mutation, the
\* request still answers success and the trigger of every other recipient of
\* the fan-out has been attempted.
C13_NotifierFailureNonFatal ==
    (result.status = Ok /\ pusher.failed # {})
        => /\ pusher.response = Ok
           /\ FanOutRecipients \subseteq pusher.attempted

----------------------------------------------------------------------------
\* Concurrent mark-as-read: C14, checked under SpecMark.

\* Both requests have ended, were made by the same participant for the same
\* conversation, and both named message m of it.
BothMarked(s1, s2, m) ==
    /\ s1 # s2
    /\ sessions[s1].pc = "done" /\ sessions[s2].pc = "done"
    /\ sessions[s1].user = sessions[s2].user
    /\ sessions[s1].conv = sessions[s2].conv
    /\ IsParticipant(sessions[s1].conv, sessions[s1].user)
    /\ m \in sessions[s1].message_ids \cap sessions[s2].message_ids
    /\ m \in ExistingMsgIds
    /\ messages[m].conversation_id = sessions[s1].conv

\* C14: when two mark-as-read requests of one user name the same message,
\* however their steps interleave, the user's receipt for it exists (once:
\* the table is keyed by message and user) and neither request got an error.
C14_ConcurrentMarkAsRead ==
    \A s1 \in Sessions, s2 \in Sessions, m \in MsgIds :
        BothMarked(s1, s2, m)
            => /\ <<m, sessions[s1].user>> \in read_receipts
               /\ sessions[s1].status = Ok
               /\ sessions[s2].status = Ok

----------------------------------------------------------------------------
\* Senders of persisted messages: C15, checked under SpecWs (whose
\* participants table never changes).

\* C15: every row of messages has a sender who is a participant of the row's
\* own conversation, whether create_message or an inbound frame wrote it.
C15_SenderIsParticipant ==
    \A m \in ExistingMsgIds :
        IsParticipant(messages[m].conversation_id, messages[m].sender_id)

----------------------------------------------------------------------------
\* Soft delete: C16, checked under SpecReact (A is the ADMIN of the
\* conversation, B a MEMBER, C no participant; each of A and B sent a message).

\* The messages of the conversation that count for some user at most: the
\* ones not deleted that another user sent.
CountableFor(conversation_id, user_id) ==
    {m \in ExistingMsgIds :
        /\ messages[m].conversation_id = conversation_id
        /\ messages[m].sender_id # user_id
        /\ ~messages[m].is_deleted}

\* No deleted message is listed or counted as unread, whatever the watermark.
DeletedAreHidden ==
    \A c \in DOMAIN conversations :
        /\ \A m \in get_messages_in_conversation(c) : ~messages[m].is_deleted
        /\ \A u \in Users :
               get_unread_count(c, u) <= Cardinality(CountableFor(c, u))

\* C16: delete_message(m, u) by the sender of m or by an ADMIN or MODERATOR of
\* its conversation leaves the row in place with only is_deleted changed, to
\* true, and the message is then neither listed nor counted as unread; by
\* anyone else it is Forbidden and leaves the messages as they were.
C16_SoftDeleteGated ==
    [][\A m \in ExistingMsgIds, u \in Users :
          delete_message(m, u) =>
              IF \/ messages[m].sender_id = u
                 \/ RoleOf(messages[m].conversation_id, u) \in {ADMIN, MODERATOR}
                  THEN /\ result'.status = Ok
                       /\ messages' = [messages EXCEPT ![m].is_deleted = TRUE]
                       /\ m \notin get_messages_in_conversation(
                                        messages[m].conversation_id)'
                       /\ DeletedAreHidden'
                  ELSE /\ result'.status = Forbidden
                       /\ messages' = messages]_vars

\* B's message has been deleted while A's is still listed.
C16_Witness ==
    /\ result = Returned("delete_message", Ok)
    /\ messages[2].is_deleted
    /\ get_messages_in_conversation(1) = {1}

----------------------------------------------------------------------------
\* Size of direct conversations: C17, checked under SpecNotify, whose
\* endpoints create conversations and add, remove and release participants.

\* C17: every conversation that is not a group has exactly two participants.
C17_DirectHasTwoParticipants ==
    \A c \in DOMAIN conversations :
        ~conversations[c].is_group => Cardinality(ParticipantIdsOf(c)) = 2

----------------------------------------------------------------------------
\* Message status and the sender's watermark: C18, C19, checked under SpecMsg.

\* Some user other than the sender of m has a read receipt for m.
ReadByOthers(m) ==
    \E u \in Users : u # messages[m].sender_id /\ <<m, u>> \in read_receipts

\* C18: once a mark-as-read call has completed, a message is READ when a user
\* other than its sender has a receipt for it and SENT when none has.
C18_StatusFollowsReceipts ==
    result.op = "mark_messages_as_read" =>
        \A m \in ExistingMsgIds :
            messages[m].status = IF ReadByOthers(m) THEN READ ELSE SENT

\* C19: once create_message has succeeded, the sender has a settings row for
\* the conversation whose watermark is the new message, or a message not
\* older than it.
C19_SendAdvancesWatermark ==
    result = Returned("create_message", Ok) =>
        LET new == Len(messages)
            rows == {s \in conversation_settings :
                        /\ s.conversation_id = messages[new].conversation_id
                        /\ s.user_id = messages[new].sender_id}
        IN  /\ rows # {}
            /\ \A s \in rows :
                   \/ s.last_read_message_id = new
                   \/ SentAtOf(s.last_read_message_id) >= messages[new].sent_at

----------------------------------------------------------------------------
\* Failed sends of a broadcast: C20, checked under SpecReg.

\* C20: when broadcast_message has returned, no connection that a send of it
\* failed for, with whatever exception, is registered under the conversation,
\* and every connection it sent the payload to still is, as long as no other
\* handler has changed the registry meanwhile.
C20_FailedSendsRemoved ==
    (/\ bc.pc = "idle"
     /\ result = Returned("broadcast_message", Ok)
     /\ ~bc.interleaved)
        =>
        /\ \A w \in bc.failed_sends : w \notin Range(Bucket(bc.conv))
        /\ \A w \in Conns :
               (sent[w] > 0 /\ w \notin bc.failed_sends)
                   => w \in Range(Bucket(bc.conv))

----------------------------------------------------------------------------
\* Broadcast interleaved with other handlers: C21, checked under SpecReg.

\* The connections registered under the broadcast's conversation from its
\* call to its return (a connection is accepted, hence registered, once).
StayedRegistered == Range(bc.start) \cap Range(Bucket(bc.conv))

\* C21: a broadcast, whatever connect and disconnect calls other handlers made
\* while it awaited its sends, returns without raising, and when none of its
\* sends failed it has sent the payload exactly once to every connection that
\* stayed registered under the conversation (the excluded one apart).
C21_InterleavedBroadcast ==
    (bc.pc = "idle" /\ result.op = "broadcast_message") =>
        /\ result.status = Ok
        /\ ~bc.failed =>
               \A w \in StayedRegistered : w # bc.exclude => sent[w] = 1

----------------------------------------------------------------------------
\* Invalid inbound frames: C22, checked under SpecWs.

InvalidFrames == {"Invalid JSON format", "Invalid message format", "Sender ID mismatch"}

\* C22: a frame that is not JSON, has not the shape of a message or names
\* another sender is answered with an error frame to its own connection, and
\* nothing else happens: no message row is written, no broadcast is started
\* and no payload sent, the registry is as it was, and the handler is still in
\* its receive loop.
C22_InvalidFrameRejected ==
    [][\A w \in Conns, kind \in InvalidFrames :
          receive_invalid_frame(w, kind) =>
              /\ result' = ReturnedWith("websocket_frame", kind, w)
              /\ messages' = messages
              /\ bc' = bc
              /\ sent' = sent
              /\ active_connections' = active_connections
              /\ handlers'[w].pc = "open"
              /\ \A other \in Conns \ {w} : handlers'[other] = handlers[other]]_vars

\* A registered connection got an error frame for a sender mismatch, and a
\* frame it sent before had been persisted.
C22_Witness ==
    /\ result.op = "websocket_frame"
    /\ result.status = "Sender ID mismatch"
    /\ result.value \in Range(Bucket(1))
    /\ handlers[result.value].pc = "open"
    /\ Len(messages) = 1

----------------------------------------------------------------------------
\* Concurrent creation of a direct conversation: C23, checked under SpecDedup.

\* The conversations that are not groups and have exactly a and b as
\* participants.
DirectConversationsOf(a, b) ==
    {c \in DOMAIN conversations :
        ~conversations[c].is_group /\ ParticipantIdsOf(c) = {a, b}}

\* C23: however the lookups and commits of create_conversation requests
\* interleave, no pair of users has two direct conversations.
C23_DedupUnderConcurrency ==
    \A a \in Users, b \in Users :
        a # b => Cardinality(DirectConversationsOf(a, b)) <= 1

----------------------------------------------------------------------------
\* Events for a user who is no longer a participant: C24, checked under
\* SpecLeave.

\* C24: a request sends the summary of its conversation to participants only;
\* the request that removed a user, or by which a user left, has triggered
\* "conversation-deleted" for that user (delivered unless the notifier failed)
\* and no summary.
C24_RemovedUserGetsDeletedOnly ==
    /\ \A u \in Users : pusher.updated[u] > 0 => IsParticipant(pusher.conv, u)
    /\ (/\ pusher.endpoint \in {"remove_participant", "leave_conversation"}
        /\ result.status = Ok)
           => /\ pusher.removed \in pusher.attempted
              /\ pusher.removed \in pusher.deleted \cup pusher.failed
              /\ pusher.updated[pusher.removed] = 0
              /\ ~IsParticipant(pusher.conv, pusher.removed)

\* A removes C from the group: C got "conversation-deleted", A and B each a
\* summary.
C24_Witness ==
    /\ pusher.endpoint = "remove_participant"
    /\ result.status = Ok
    /\ pusher.removed = "C"
    /\ pusher.deleted = {"C"}
    /\ pusher.updated = [u \in Users |-> IF u = "C" THEN 0 ELSE 1]

----------------------------------------------------------------------------
\* The mark-read request and the read count: C25 under SpecNotify, C26 under
\* SpecMsg.

\* C25: a mark-read request whose service call succeeded (receipts committed,
\* or nothing to mark) gets the messages whose status changed back from the
\* service and completes successfully.
C25_MarkReadCompletes ==
    (pusher.endpoint = "mark_messages_as_read" /\ result.status = Ok)
        => (~pusher.raised /\ pusher.response = Ok)

\* The users other than the sender of m who have a read receipt for m.
ReadersOtherThanSender(m) ==
    {u \in Users : u # messages[m].sender_id /\ <<m, u>> \in read_receipts}

\* C26: the read_by_count of every message a listing or a lookup returns is the
\* number of users other than its sender who have a read receipt for it.
C26_ReadCountExcludesSender ==
    \A c \in DOMAIN conversations : \A m \in get_messages_in_conversation(c) :
        read_by_count(m) = Cardinality(ReadersOtherThanSender(m))

----------------------------------------------------------------------------
\* The admin of a conversation: C27, checked under SpecMembers.

\* C27: a conversation that has a participant has a participant whose role is
\* ADMIN.
C27_AdminRemains ==
    \A c \in DOMAIN conversations :
        ParticipantIdsOf(c) # {}
            => \E u \in ParticipantIdsOf(c) : RoleOf(c, u) = ADMIN

----------------------------------------------------------------------------
\* The watermark and the conversation it belongs to: C28, checked under
\* SpecCross.

\* C28: the last_read_message_id of a settings row is a message of the row's
\* conversation, and a read receipt of a user is for a message of a
\* conversation the user takes part in.
C28_WatermarkInConversation ==
    /\ \A s \in conversation_settings :
          /\ s.last_read_message_id \in ExistingMsgIds
          /\ messages[s.last_read_message_id].conversation_id = s.conversation_id
    /\ \A r \in read_receipts :
          IsParticipant(messages[r[1]].conversation_id, r[2])

----------------------------------------------------------------------------
\* The end of a connection handler: C29, checked under SpecWsFair.

Registered(w) == \E c \in DOMAIN active_connections : w \in Range(Bucket(c))

\* C29: the connection of a handler that has terminated is registered under
\* no conversation, and a registered connection whose client has disconnected
\* is eventually removed from the registry.
C29_TerminatedIsUnregistered ==
    /\ [](\A w \in Conns : handlers[w].pc = "closed" => ~Registered(w))
    /\ \A w \in WsConns :
          (handlers[w].client_gone /\ Registered(w)) ~> ~Registered(w)

\* A handler that was registered, whose client then went away, has ended, and
\* the other connection is still registered.
C29_Witness ==
    /\ handlers["w1"].pc = "closed"
    /\ handlers["w1"].token_ok /\ handlers["w1"].participant_found
    /\ "w1" \in accepted
    /\ Registered("w2")
    /\ handlers["w2"].client_gone

----------------------------------------------------------------------------
\* Broadcasts and membership: C30, checked under SpecKick.

\* C30: when a broadcast of a conversation starts a send to a connection whose
\* handler runs, the user of that connection is a participant of the
\* conversation.
C30_BroadcastToParticipantsOnly ==
    [][(/\ bc'.pc = "sending"
        /\ bc.pc # "sending" \/ bc'.i # bc.i
        /\ handlers'[bc'.target].pc \notin {"new", "closed"})
           => IsParticipant(bc.conv, handlers[bc.target].user)']_vars
====
